---- MODULE Spec2Model ----
(***************************************************************************)
(* Attention Zoomer: the duration dial (components/TimeSelector.tsx), the  *)
(* duration formatter and the part of App.tsx that owns the dial's props.  *)
(*                                                                         *)
(* Real-valued quantities are kept exact or on a fixed grid:               *)
(*   - an angle is an integer number of 1/AngleScale degrees;              *)
(*   - a fraction of the dial's travel is a numerator over FracDen, the    *)
(*     angle range in grid units, so (clamped - MIN_ANGLE) / ANGLE_RANGE   *)
(*     is exact;                                                           *)
(*   - Math.pow(f, 1.2) followed by Math.round is decided exactly by       *)
(*     comparing fifth and sixth powers in arbitrary-precision naturals    *)
(*     (little-endian limbs base 10000), since f^(6/5) >= a  <=>  f^6 >=   *)
(*     a^5; no rational f sits exactly on a rounding boundary.             *)
(***************************************************************************)
EXTENDS Integers, Naturals, Sequences, FiniteSets, TLC

\* ---------------------------------------------------------------- bounds
\* grid steps per degree
AngleScale == 4
\* largest pointer offset from the dial centre, in pixels
Far == 1000
\* largest seconds value handed to secondsToFraction from outside
MaxSecondsIn == 1000
MaxFrames == 4

\* ------------------------------------------------- TimeSelector constants
MIN_ANGLE == -135
MAX_ANGLE == 135
ANGLE_RANGE == MAX_ANGLE - MIN_ANGLE
MIN_SECONDS == 15
MAX_SECONDS == 900
\* power = 1.2 = PowNum / PowDen
PowNum == 6
PowDen == 5
\* Math.round(raw / 5) * 5
SnapStep == 5

FracDen == ANGLE_RANGE * AngleScale
Fractions == 0..FracDen

\* ------------------------------------------- arbitrary-precision naturals
RECURSIVE BigMulCarry(_, _, _)
BigMulCarry(a, m, c) ==
  IF a = <<>>
    THEN IF c = 0 THEN <<>> ELSE <<c>>
    ELSE LET p == Head(a) * m + c
         IN  <<p % 10000>> \o BigMulCarry(Tail(a), m, p \div 10000)

\* a * m for a limb sequence a and 0 <= m < 10000
BigMul(a, m) == IF m = 0 THEN <<>> ELSE BigMulCarry(a, m, 0)

\* a * m^e
RECURSIVE BigMulPow(_, _, _)
BigMulPow(a, m, e) == IF e = 0 THEN a ELSE BigMulPow(BigMul(a, m), m, e - 1)

RECURSIVE BigLeqFrom(_, _, _)
BigLeqFrom(a, b, i) ==
  IF i = 0 THEN TRUE
  ELSE IF a[i] # b[i] THEN a[i] < b[i]
  ELSE BigLeqFrom(a, b, i - 1)

\* a <= b
BigLeq(a, b) ==
  IF Len(a) # Len(b) THEN Len(a) < Len(b) ELSE BigLeqFrom(a, b, Len(a))

\* x^ex * y^ey <= u^eu * v^ev, all bases in 0..9999
PowProdLeq(x, ex, y, ey, u, eu, v, ev) ==
  BigLeq(BigMulPow(BigMulPow(<<1>>, x, ex), y, ey),
         BigMulPow(BigMulPow(<<1>>, u, eu), v, ev))

\* ------------------------------------------------------ the value mapping
\* q - 1/2 <= raw / 5 for raw = MIN + (MAX - MIN) * (k/FracDen)^(6/5), i.e.
\*   SnapStep*(2q - 1) - 2*MIN <= 2*(MAX - MIN) * (k/FracDen)^(6/5)
AtLeastHalfBelow(k, q) ==
  LET a == SnapStep * (2 * q - 1) - 2 * MIN_SECONDS
  IN  \/ a <= 0
      \/ PowProdLeq(a, PowDen, FracDen, PowNum,
                    2 * (MAX_SECONDS - MIN_SECONDS), PowDen, k, PowNum)

\* the largest q in lo..hi with AtLeastHalfBelow(k, q), by bisection
RECURSIVE RoundedStepsIn(_, _, _)
RoundedStepsIn(k, lo, hi) ==
  IF lo = hi THEN lo
  ELSE LET mid == (lo + hi + 1) \div 2
       IN  IF AtLeastHalfBelow(k, mid) THEN RoundedStepsIn(k, mid, hi)
           ELSE RoundedStepsIn(k, lo, mid - 1)

\* Math.round(raw / 5) = floor(raw / 5 + 1/2)
RoundedSteps(k) == RoundedStepsIn(k, 0, 2 * (MAX_SECONDS \div SnapStep))

\* "return Math.round(raw / 5)": the multiplication by 5 forgotten
fractionToSecondsUnscaled(k) == RoundedSteps(k)

\* the curve run from MAX_SECONDS down to MIN_SECONDS
fractionToSecondsReversed(k) == RoundedSteps(FracDen - k) * SnapStep

fractionToSecondsCalc(k) == RoundedSteps(k) * SnapStep

fractionToSecondsTable == [k \in Fractions |-> fractionToSecondsCalc(k)]

\* fractionToSeconds(f) for f = k / FracDen
fractionToSeconds(k) ==
  IF k \in Fractions THEN fractionToSecondsTable[k] ELSE fractionToSecondsCalc(k)

Max(a, b) == IF a >= b THEN a ELSE b
Min(a, b) == IF a <= b THEN a ELSE b

\* (2k - 1) / (2 FracDen) <= (c / (MAX - MIN))^(ed/en)
AtMostHalfAbove(c, k, en, ed) ==
  \/ k = 0
  \/ PowProdLeq(2 * k - 1, en, MAX_SECONDS - MIN_SECONDS, ed, c, ed, 2 * FracDen, en)

\* the grid fraction nearest to (c / (MAX - MIN))^(ed/en), by bisection
RECURSIVE NearestFractionIn(_, _, _, _, _)
NearestFractionIn(c, en, ed, lo, hi) ==
  IF lo = hi THEN lo
  ELSE LET mid == (lo + hi + 1) \div 2
       IN  IF AtMostHalfAbove(c, mid, en, ed) THEN NearestFractionIn(c, en, ed, mid, hi)
           ELSE NearestFractionIn(c, en, ed, lo, mid - 1)

\* Math.pow(x, power) where Math.pow(x, 1 / power) is meant
secondsToFractionWrongPower(s) ==
  LET clamped == Max(MIN_SECONDS, Min(MAX_SECONDS, s))
  IN  NearestFractionIn(clamped - MIN_SECONDS, PowDen, PowNum, 0, FracDen)

\* Math.max(MIN_SECONDS, s): the upper clamp forgotten
secondsToFractionLowerClampOnly(s) ==
  NearestFractionIn(Max(MIN_SECONDS, s) - MIN_SECONDS, PowNum, PowDen, 0, 2 * FracDen)

\* secondsToFraction(s): ((clamped - MIN) / (MAX - MIN))^(1 / 1.2), rounded to
\* the nearest grid fraction
secondsToFraction(s) ==
  LET clamped == Max(MIN_SECONDS, Min(MAX_SECONDS, s))
  IN  NearestFractionIn(clamped - MIN_SECONDS, PowNum, PowDen, 0, FracDen)

\* ------------------------------------------------------ duration formatter
\* the template `${m}m ${s}s` without its "s > 0 ?" alternative
formatTimeAlwaysSeconds(seconds) ==
  IF seconds < 60 THEN ToString(seconds) \o "s"
  ELSE ToString(seconds \div 60) \o "m " \o ToString(seconds % 60) \o "s"

\* formatTime(seconds) for an integer seconds >= 0, on which Math.round is the
\* identity; a number in a template literal is written in decimal
formatTime(seconds) ==
  IF seconds < 60 THEN ToString(seconds) \o "s"
  ELSE LET m == seconds \div 60
           s == seconds % 60
       IN  IF s > 0 THEN ToString(m) \o "m " \o ToString(s) \o "s"
           ELSE ToString(m) \o "m"

\* the "if (seconds <= limit) return text" lines of getTimeContext, in order
TimeContexts ==
  << [limit |-> 15,  text |-> "Usain Bolt runs almost 200 meters."],
     [limit |-> 30,  text |-> "About the length of a cheeky TikTok."],
     [limit |-> 45,  text |-> "Quicker than a typical elevator pitch."],
     [limit |-> 60,  text |-> "One 'microwave minute' (feels longer)."],
     [limit |-> 90,  text |-> "Time to tie your shoelaces, double knot."],
     [limit |-> 120, text |-> "Dentist-approved brushing time."],
     [limit |-> 180, text |-> "Roughly the length of a pop song."],
     [limit |-> 240, text |-> "Steeping a bag of Earl Grey."],
     [limit |-> 300, text |-> "A perfect soft-boiled egg."],
     [limit |-> 420, text |-> "Reading the Terms & Conditions (just kidding)."],
     [limit |-> 500, text |-> "Walking about a quarter mile."],
     [limit |-> 600, text |-> "A quick coffee break."],
     [limit |-> 750, text |-> "Ordering dinner for a group of four."],
     [limit |-> 900, text |-> "A solid power nap."] >>

\* the final return of getTimeContext
FallbackContext == "A sitcom episode (without ads)."

\* the if chain from line i of the table on
RECURSIVE scanTimeContexts(_, _, _)
scanTimeContexts(seconds, table, i) ==
  IF i > Len(table) THEN FallbackContext
  ELSE IF seconds <= table[i].limit THEN table[i].text
  ELSE scanTimeContexts(seconds, table, i + 1)

\* every comparison written "<" instead of "<="
getTimeContextStrict(seconds) == scanTimeContexts(seconds + 1, TimeContexts, 1)

\* the chain without its last line, "if (seconds <= 900)"
getTimeContextWithoutLast(seconds) ==
  scanTimeContexts(seconds, SubSeq(TimeContexts, 1, Len(TimeContexts) - 1), 1)

getTimeContext(seconds) == scanTimeContexts(seconds, TimeContexts, 1)

\* ------------------------------------------------------------- geometry
Abs(n) == IF n < 0 THEN -n ELSE n

\* Math.atan(num / den) in grid units for 0 <= num <= den, den > 0, rounded to
\* the nearest unit: 45 z + 15.64 z (1 - z) degrees with z = num / den (within
\* a quarter of a degree of the arctangent, exact at z = 0 and z = 1)
AtanUnits(num, den) ==
  LET scaled == AngleScale * (45 * num * den + (1564 * num * (den - num)) \div 100)
  IN  (2 * scaled + den * den) \div (2 * den * den)

\* Math.atan2(dy, dx) * (180 / Math.PI) in grid units, in (-180, 180] degrees
atan2Units(dy, dx) ==
  LET ax == Abs(dx)
      ay == Abs(dy)
      a1 == IF ax = 0 /\ ay = 0 THEN 0
            ELSE IF ay <= ax THEN AtanUnits(ay, ax)
            ELSE 90 * AngleScale - AtanUnits(ax, ay)
  IN  IF dx >= 0 THEN (IF dy >= 0 THEN a1 ELSE -a1)
      ELSE (IF dy >= 0 THEN 180 * AngleScale - a1 ELSE a1 - 180 * AngleScale)

\* angleDeg after "+= 90", without "if (angleDeg > 180) angleDeg -= 360"
angleDegUnwrapped(dx, dy) == atan2Units(dy, dx) + 90 * AngleScale

\* angleDeg after "+= 90" and "if (angleDeg > 180) angleDeg -= 360"
angleDeg(dx, dy) ==
  LET shifted == atan2Units(dy, dx) + 90 * AngleScale
  IN  IF shifted > 180 * AngleScale THEN shifted - 360 * AngleScale ELSE shifted

\* Math.max(MIN_ANGLE, angleDeg): the upper clamp forgotten
clampedAngleLowerOnly(a) == Max(MIN_ANGLE * AngleScale, a)

\* the clamp taken to a quarter turn each way instead of MIN_ANGLE, MAX_ANGLE
clampedAngleQuarterTurn(a) == Max(-90 * AngleScale, Min(90 * AngleScale, a))

\* Math.max(MIN_ANGLE, Math.min(MAX_ANGLE, angleDeg))
clampedAngle(a) == Max(MIN_ANGLE * AngleScale, Min(MAX_ANGLE * AngleScale, a))

\* (clampedAngle - MIN_ANGLE) / ANGLE_RANGE as a numerator over FracDen
newFraction(c) == c - MIN_ANGLE * AngleScale

\* currentAngle = MIN_ANGLE + currentFraction * ANGLE_RANGE, in grid units
currentAngle(frac) == MIN_ANGLE * AngleScale + frac

\* pointer offsets from the dial centre (clientX - centerX, clientY - centerY)
Coords == {-Far, -41, 0, 41, Far}
Pointers == Coords \X Coords

\* ------------------------------------------------------------------ state
VARIABLES
  duration,         \* App: duration state, the dial's seconds prop
  loading,          \* App: loading state, the dial's disabled prop
  isDemo,           \* App: isDemo state, the dial's isDemo prop
  isDemoRef,        \* App: isDemoRef.current
  inputText,        \* App: inputText state ("" or an article)
  generatedContent, \* App: generatedContent state ("null" or the content)
  contentStyle,     \* App: contentStyle state
  generatedImage,   \* App: generatedImage state ("null" or the image URL)
  error,            \* App: error state ("null" or the message)
  isTunerOpen,      \* App: isTunerOpen state
  pendingInput,     \* App: pendingInput state
  requests,         \* App: the executeGeneration calls awaiting Promise.all
  apiKey,           \* services: process.env.API_KEY is set
  localInput,       \* ReaderView: localInput state ("" when no reader is mounted)
  localStyle,       \* ReaderView: localStyle state
  timeLeft,         \* ReaderView: timeLeft state (0 when no reader is mounted)
  mounted,          \* the home-screen TimeSelector is rendered (knobRef set)
  isDragging,       \* TimeSelector: isDragging state
  lastValueRef,     \* TimeSelector: lastValueRef.current
  listeners,        \* TimeSelector: the window listeners of the last effect
  animation,        \* App: the intro animation's pending timer or frame
  lastStep,         \* what the last handler was given and which callbacks it made
  probe             \* the value mapping applied to one input in isolation

formVars == <<contentStyle, isTunerOpen, pendingInput>>
resultVars == <<generatedImage, error>>
readerVars == <<localInput, localStyle, timeLeft>>
appVars == <<duration, loading, isDemo, isDemoRef, inputText, generatedContent, requests,
            apiKey, animation, formVars, resultVars, readerVars>>
dialVars == <<mounted, isDragging, lastValueRef, listeners>>
vars == <<duration, loading, isDemo, isDemoRef, inputText, generatedContent, requests,
          apiKey, animation, contentStyle, isTunerOpen, pendingInput, generatedImage, error,
          localInput, localStyle, timeLeft,
          mounted, isDragging, lastValueRef, listeners, lastStep, probe>>

NoAnimation == [phase |-> "stopped"]
NoListeners ==
  [attached |-> FALSE, isDragging |-> FALSE, disabled |-> FALSE, isDemo |-> FALSE, sets |-> 0]
NoProbe == [kind |-> "none", stage |-> 0, arg |-> 0, frac |-> 0, sec |-> 0, text |-> ""]

\* a step record for handler ev that made the callbacks calls
Step(ev, calls) ==
  [ev |-> ev, prevEv |-> lastStep.ev, disabled |-> loading, wasDragging |-> isDragging,
   lastBefore |-> lastValueRef, handled |-> FALSE, dx |-> 0, dy |-> 0, angleDeg |-> 0, clampedAngle |-> 0,
   newFraction |-> 0, calls |-> calls]

\* an effect without its cleanup: listeners of an earlier render stay attached
EffectNoCleanup(dragging, disabled, demo) ==
  IF dragging
    THEN [attached |-> TRUE, isDragging |-> TRUE, disabled |-> disabled, isDemo |-> demo,
          sets |-> listeners.sets + 1]
    ELSE listeners

\* the effect body without its "if (isDragging)": handlers are added on
\* every run
EffectAlwaysAttached(dragging, disabled, demo) ==
  [attached |-> TRUE, isDragging |-> dragging, disabled |-> disabled, isDemo |-> demo,
   sets |-> listeners.sets - (IF listeners.attached THEN 1 ELSE 0) + 1]

\* the effect of [isDragging, disabled]: its cleanup removes the previous
\* listeners, its body adds new ones, closed over this render, when dragging;
\* sets counts the handler sets registered on the window
Effect(dragging, disabled, demo) ==
  [attached |-> dragging, isDragging |-> dragging, disabled |-> disabled, isDemo |-> demo,
   sets |-> listeners.sets - (IF listeners.attached THEN 1 ELSE 0)
                           + (IF dragging THEN 1 ELSE 0)]

\* the dependency list [isDragging] alone: a change of disabled leaves the
\* listeners of the earlier render in place
AfterRenderDraggingOnly(dragging, disabled, demo) ==
  IF dragging # listeners.isDragging
    THEN [attached |-> dragging, isDragging |-> dragging, disabled |-> disabled,
          isDemo |-> demo,
          sets |-> listeners.sets - (IF listeners.attached THEN 1 ELSE 0)
                                  + (IF dragging THEN 1 ELSE 0)]
    ELSE listeners

\* the listeners after a render of a mounted dial: the effect runs again only
\* when one of its dependencies changed
AfterRender(dragging, disabled, demo) ==
  IF dragging # listeners.isDragging \/ disabled # listeners.disabled
    THEN Effect(dragging, disabled, demo)
    ELSE listeners

Init ==
  /\ duration = 180
  /\ loading = FALSE
  /\ isDemo = TRUE
  /\ isDemoRef = TRUE
  /\ inputText = ""
  /\ generatedContent = "null"
  /\ requests = <<>> /\ apiKey = TRUE
  /\ animation = [phase |-> "delay"]
  /\ contentStyle = "default" /\ isTunerOpen = FALSE /\ pendingInput = ""
  /\ generatedImage = "null" /\ error = "null"
  /\ localInput = "" /\ localStyle = "default" /\ timeLeft = 0
  /\ mounted = TRUE
  /\ isDragging = FALSE
  /\ lastValueRef = 180
  /\ listeners = [attached |-> FALSE, isDragging |-> FALSE, disabled |-> FALSE,
                  isDemo |-> TRUE, sets |-> 0]
  /\ lastStep = [ev |-> "init", prevEv |-> "init", disabled |-> FALSE, wasDragging |-> FALSE,
                 lastBefore |-> 180, handled |-> FALSE, dx |-> 0, dy |-> 0, angleDeg |-> 0, clampedAngle |-> 0,
                 newFraction |-> 0, calls |-> <<>>]
  /\ probe = NoProbe

\* ------------------------------------------------------------ TimeSelector
Call(fn, arg) == [fn |-> fn, arg |-> arg]

\* lines 116-131 of handleInteraction: the angle of the pointer, its clamp,
\* the fraction and the seconds value
pointerValuesCalc(dx, dy) ==
  LET a == angleDeg(dx, dy)
      c == clampedAngle(a)
      f == newFraction(c)
  IN  [angleDeg |-> a, clampedAngle |-> c, newFraction |-> f,
       newSeconds |-> fractionToSeconds(f)]

\* pointerValuesCalc over the pointer positions of the model, evaluated once
pointerValuesTable == [p \in Pointers |-> pointerValuesCalc(p[1], p[2])]

pointerValues(dx, dy) ==
  IF <<dx, dy>> \in Pointers THEN pointerValuesTable[<<dx, dy>>]
  ELSE pointerValuesCalc(dx, dy)

\* handleInteraction without "lastValueRef.current = newSeconds"
interactRefNotWritten(dx, dy, demo) ==
  LET s == pointerValues(dx, dy).newSeconds
  IN  [handled |-> TRUE, angleDeg |-> pointerValues(dx, dy).angleDeg,
       clampedAngle |-> pointerValues(dx, dy).clampedAngle,
       newFraction |-> pointerValues(dx, dy).newFraction,
       newSeconds |-> s, last |-> lastValueRef,
       calls |-> (IF s # lastValueRef
                    THEN <<Call("playClickSound", IF demo THEN 0 ELSE 1)>>
                    ELSE <<>>)
                 \o <<Call("onChange", s)>>]

\* lines 116-137 of handleInteraction, past its guard
interact(dx, dy, demo) ==
  LET g == pointerValues(dx, dy)
      s == g.newSeconds
  IN  [handled |-> TRUE, angleDeg |-> g.angleDeg, clampedAngle |-> g.clampedAngle,
       newFraction |-> g.newFraction, newSeconds |-> s, last |-> s,
       calls |-> (IF s # lastValueRef
                    THEN <<Call("playClickSound", IF demo THEN 0 ELSE 1)>>
                    ELSE <<>>)
                 \o <<Call("onChange", s)>>]

\* the guard's outcome: nothing is computed, called or written
ignored ==
  [handled |-> FALSE, angleDeg |-> 0, clampedAngle |-> 0, newFraction |-> 0,
   newSeconds |-> duration, last |-> lastValueRef, calls |-> <<>>]

\* onChange moved inside "if (newSeconds !== lastValueRef.current)"
handleInteractionChangedOnly(dx, dy, disabled, demo) ==
  IF disabled \/ ~mounted
    THEN ignored
    ELSE LET r == interact(dx, dy, demo)
         IN  IF r.newSeconds # lastValueRef THEN r
             ELSE [r EXCEPT !.calls = <<>>, !.newSeconds = duration]

\* the guard without "|| !knobRef.current"
handleInteractionNoKnobCheck(dx, dy, disabled, demo) ==
  IF disabled THEN ignored ELSE interact(dx, dy, demo)

\* handleInteraction(clientX, clientY) of a render whose props were disabled
\* and demo; playClickSound is silent (arg 0) when that render's isDemo is set
handleInteraction(dx, dy, disabled, demo) ==
  IF disabled \/ ~mounted THEN ignored ELSE interact(dx, dy, demo)

\* handleMouseDown without its call of handleInteraction
downInteractionSkipped(dx, dy) == ignored

\* "handleInteraction(e.clientX, e.clientY)" in handleMouseDown / handleTouchStart
downInteraction(dx, dy) == handleInteraction(dx, dy, loading, isDemo)

\* the step record of a pointer event at (dx, dy) that ran handleInteraction
PointerStep(ev, dx, dy, r, before) ==
  [Step(ev, before \o r.calls) EXCEPT
     !.handled = r.handled,
     !.dx = IF r.handled THEN dx ELSE 0,
     !.dy = IF r.handled THEN dy ELSE 0,
     !.angleDeg = r.angleDeg, !.clampedAngle = r.clampedAngle,
     !.newFraction = r.newFraction]

\* handleMouseDown / handleTouchStart on the knob: handleStart, which calls
\* onInteractionStart (App.handleInteractionStart) and setIsDragging(true),
\* then handleInteraction of the current render; onChange is setDuration
handleMouseDown(dx, dy) ==
  /\ mounted
  /\ IF loading
       THEN /\ lastStep' = Step("down", <<>>)
            /\ UNCHANGED <<appVars, dialVars>>
       ELSE LET r == downInteraction(dx, dy)
            IN  /\ isDemoRef' = FALSE
                /\ isDemo' = IF isDemoRef THEN FALSE ELSE isDemo
                /\ isDragging' = TRUE
                /\ lastValueRef' = r.last
                /\ duration' = r.newSeconds
                /\ listeners' = AfterRender(TRUE, loading, isDemo')
                /\ lastStep' = PointerStep("down", dx, dy, r, <<Call("onInteractionStart", 0)>>)
                /\ UNCHANGED <<animation, loading, inputText, generatedContent, requests,
                               formVars, resultVars, readerVars, mounted>>
  /\ UNCHANGED <<apiKey, probe>>

\* a mousemove / touchmove on the window: handleMove / handleTouchMove of the
\* render whose effect attached them
handleMove(dx, dy) ==
  /\ IF listeners.attached /\ listeners.isDragging
       THEN LET r == handleInteraction(dx, dy, listeners.disabled, listeners.isDemo)
            IN  /\ lastValueRef' = r.last
                /\ duration' = r.newSeconds
                /\ lastStep' = PointerStep("move", dx, dy, r, <<>>)
       ELSE /\ lastStep' = Step("move", <<>>)
            /\ UNCHANGED <<lastValueRef, duration>>
  /\ UNCHANGED <<loading, isDemo, isDemoRef, inputText, generatedContent, requests,
                 animation, formVars, resultVars, readerVars, mounted, isDragging,
                 listeners, apiKey, probe>>

\* a mouseup / touchend on the window: handleUp, when attached
handleUp ==
  /\ IF listeners.attached
       THEN /\ isDragging' = FALSE
            /\ listeners' = AfterRender(FALSE, loading, isDemo)
       ELSE UNCHANGED <<isDragging, listeners>>
  /\ lastStep' = Step("up", <<>>)
  /\ UNCHANGED <<appVars, mounted, lastValueRef, probe>>

\* --------------------------------------------------------------------- App
\* the keyframes of the intro animation: time (ms) -> value (seconds)
keyframes ==
  << [t |-> 0,    v |-> 180],
     [t |-> 1000, v |-> 180],
     [t |-> 2500, v |-> 240],
     [t |-> 2800, v |-> 240],
     [t |-> 4000, v |-> 120],
     [t |-> 4300, v |-> 120],
     [t |-> 5500, v |-> 180] >>

durationMs == 5500

\* Date.now() - startTime at the frames the model runs, in ms
FrameTimes == {1500 * k : k \in 1..MaxFrames}

RECURSIVE GCD(_, _)
GCD(a, b) == IF b = 0 THEN a ELSE GCD(b, a % b)

\* the loop "for (i = 0; i < keyframes.length - 1; i++) if (elapsed >=
\* keyframes[i].t) currentSegmentIndex = i", from i with the index found so
\* far (indices from 1)
RECURSIVE currentSegmentIndex(_, _, _)
currentSegmentIndex(elapsed, i, found) ==
  IF i > Len(keyframes) - 1 THEN found
  ELSE currentSegmentIndex(elapsed, i + 1,
                           IF elapsed >= keyframes[i].t THEN i ELSE found)

\* Math.round(start + diff * ease) for the ease-in-out cubic of the progress
\* a / b in [0, 1]: 4 p^3 below one half, 1 - (2 - 2p)^3 / 2 from there on,
\* that is (b^3 - 4 (b - a)^3) / b^3; Math.round(x) is floor(x + 1/2)
easedRound(start, diff, a, b) ==
  LET den == b * b * b
      num == IF 2 * a < b THEN 4 * a * a * a
             ELSE den - 4 * (b - a) * (b - a) * (b - a)
  IN  start + ((2 * diff * num + den) \div (2 * den))

\* the value a frame at elapsed < durationMs passes to setDuration
frameValue(elapsed) ==
  LET i == currentSegmentIndex(elapsed, 1, 1)
      startFrame == keyframes[i]
      endFrame == keyframes[i + 1]
      segmentDuration == endFrame.t - startFrame.t
      segmentElapsed == elapsed - startFrame.t
      clamped == Max(0, Min(segmentDuration, segmentElapsed))
      g == GCD(clamped, segmentDuration)
  IN  IF segmentDuration <= 0 THEN endFrame.v
      ELSE easedRound(startFrame.v, endFrame.v - startFrame.v,
                      clamped \div g, segmentDuration \div g)

\* a check of the isDemo state the effect's closure captured at mount, which
\* stays true, instead of the ref
stoppedByStaleState == FALSE

\* "if (!isDemoRef.current) return;" in the timer callback and in animate
stoppedByRef == ~isDemoRef

\* an effect of [duration] that restarts the interval only
timeLeftKept(newDuration) == timeLeft

\* ReaderView's effect of [duration]: a mounted reader sets timeLeft to the
\* duration prop when the prop changes
timeLeftAfter(newDuration) ==
  IF generatedContent # "null" /\ newDuration # duration THEN newDuration ELSE timeLeft

\* the setTimeout(..., 600) callback: it starts the frame loop unless the
\* demo was cancelled during the delay
startDelay ==
  /\ animation.phase = "delay"
  /\ animation' = IF stoppedByRef THEN NoAnimation ELSE [phase |-> "running"]
  /\ lastStep' = Step("startDelay", <<>>)
  /\ UNCHANGED <<duration, loading, isDemo, isDemoRef, inputText, generatedContent,
                 requests, formVars, resultVars, readerVars, dialVars, apiKey, probe>>

\* one animation frame: animate(), with elapsed = Date.now() - startTime; the
\* wall clock need not advance from one frame to the next
animate(elapsed) ==
  /\ animation.phase = "running"
  /\ IF stoppedByRef
       THEN /\ animation' = NoAnimation
            /\ lastStep' = Step("animate", <<>>)
            /\ UNCHANGED <<duration, timeLeft>>
       ELSE IF elapsed >= durationMs
         THEN /\ duration' = 180
              /\ timeLeft' = timeLeftAfter(180)
              /\ animation' = NoAnimation
              /\ lastStep' = Step("animate", <<Call("setDuration", 180)>>)
         ELSE /\ duration' = frameValue(elapsed)
              /\ timeLeft' = timeLeftAfter(frameValue(elapsed))
              /\ animation' = animation
              /\ lastStep' = Step("animate", <<Call("setDuration", frameValue(elapsed))>>)
  /\ UNCHANGED <<loading, isDemo, isDemoRef, inputText, generatedContent, requests,
                 formVars, resultVars, localInput, localStyle, dialVars, apiKey, probe>>

\* texts typed on the home screen; "  " is whitespace only
Texts == {"", "article"}
AppTexts == Texts \cup {"  "}
Styles == {"default", "story"}

\* String.prototype.trim on the texts of the model
trim(t) == IF t = "  " THEN "" ELSE t

BlankMessage == "Please input source text to proceed."
FailureMessage ==
  "Failed to process the article. Please check your connection and try again."
EmptyTextContent == "Could not generate content. Please try again."
KeyMessage == "API_KEY not found in environment variables"

\* the messages of the errors a promise of executeGeneration can reject with
Thrown == {FailureMessage, KeyMessage}

\* what the two API calls can do
ContentOutcomes == {"text", "emptyText", "apiError"}
ImageOutcomes == {"image", "noImagePart", "apiError"}

\* getClient: it throws when the environment has no API_KEY
getClient == IF apiKey THEN "client" ELSE KeyMessage

\* generateReadingContent: response.text, its replacement when empty, or the
\* Error thrown from the catch
generateReadingContent(outcome) ==
  CASE getClient = KeyMessage -> KeyMessage
    [] outcome = "text" -> "content"
    [] outcome = "emptyText" -> EmptyTextContent
    [] OTHER -> FailureMessage

\* generateCoverImage whose catch rethrows
generateCoverImageRethrows(outcome) ==
  CASE getClient = KeyMessage -> KeyMessage
    [] outcome = "image" -> "url"
    [] outcome = "noImagePart" -> "null"
    [] OTHER -> FailureMessage

\* generateCoverImage: the data URL of the first inline image part, null when
\* there is none, null from the catch; getClient is called outside the try
generateCoverImage(outcome) ==
  CASE getClient = KeyMessage -> KeyMessage
    [] outcome = "image" -> "url"
    [] OTHER -> "null"

\* ArticleInput: "!disabled && value.trim()" in handleKeyDown and
\* "disabled={disabled || !value.trim()}" on the submit button
canSubmit(value, disabled) == ~disabled /\ trim(value) # ""

\* the tuner's submit button without its disabled attribute
tunerButtonNeverDisabled == FALSE

\* "disabled={loading}" on the tuner's submit button
tunerButtonDisabled == loading

\* ArticleInput onChange on the home screen: setInputText(val);
\* handleInteractionStart(); the textarea is disabled while loading
setInputText(t) ==
  /\ generatedContent = "null"
  /\ ~loading
  /\ inputText' = t
  /\ isDemoRef' = FALSE
  /\ isDemo' = IF isDemoRef THEN FALSE ELSE isDemo
  /\ lastStep' = Step("input", <<>>)
  /\ UNCHANGED <<animation, duration, loading, generatedContent, requests, formVars,
                 resultVars, readerVars, dialVars, apiKey, probe>>

\* executeGeneration(text, time, style) up to "await Promise.all"
executeGeneration(text, time, style) ==
  /\ loading' = TRUE
  /\ error' = "null"
  /\ generatedImage' = "null"
  /\ isDemoRef' = FALSE
  /\ isDemo' = IF isDemoRef THEN FALSE ELSE isDemo
  /\ isTunerOpen' = FALSE
  /\ requests' = Append(requests, [text |-> text, time |-> time, style |-> style,
                                   content |-> "pending", image |-> "pending"])
  /\ listeners' = IF mounted THEN AfterRender(isDragging, TRUE, isDemo') ELSE listeners
  /\ lastStep' = Step("generate", <<Call("setLoading", 1)>>)
  /\ UNCHANGED <<animation, duration, inputText, generatedContent, contentStyle,
                 pendingInput, readerVars, mounted, isDragging, lastValueRef, apiKey, probe>>

\* handleInitialGenerate without its check of inputText.trim()
handleInitialGenerateUnchecked == executeGeneration(inputText, duration, contentStyle)

\* handleInitialGenerate
handleInitialGenerate ==
  IF trim(inputText) = ""
    THEN /\ error' = BlankMessage
         /\ lastStep' = Step("generate", <<Call("setError", 1)>>)
         /\ UNCHANGED <<duration, loading, isDemo, isDemoRef, inputText, generatedContent,
                        requests, animation, formVars, generatedImage, readerVars,
                        dialVars, apiKey, probe>>
    ELSE executeGeneration(inputText, duration, contentStyle)

\* the submit button or Ctrl/Cmd+Enter of the home screen's ArticleInput
homeSubmit ==
  /\ generatedContent = "null"
  /\ canSubmit(inputText, loading)
  /\ handleInitialGenerate

Remove(seq, i) == SubSeq(seq, 1, i - 1) \o SubSeq(seq, i + 1, Len(seq))

\* a join that does not wait for the image
joinedOnContent(r) == r.content # "pending"

\* Promise.all([contentPromise, imagePromise]) has resolved
joined(r) == r.content # "pending" /\ r.image # "pending"

\* the try block after the await, for call i whose promises gave r; a reader
\* comes up with its state initialised from its props, one already up keeps
\* localInput and localStyle
resolved(i, r, ev) ==
  /\ generatedContent' = r.content
  /\ generatedImage' = r.image
  /\ inputText' = r.text
  /\ contentStyle' = r.style
  /\ duration' = r.time
  /\ loading' = FALSE
  /\ requests' = Remove(requests, i)
  /\ IF generatedContent = "null"
       THEN localInput' = r.text /\ localStyle' = r.style /\ timeLeft' = r.time
       ELSE timeLeft' = timeLeftAfter(r.time) /\ UNCHANGED <<localInput, localStyle>>
  /\ mounted' = FALSE
  /\ isDragging' = FALSE
  /\ listeners' = NoListeners
  /\ lastStep' = Step(ev, <<Call("setGeneratedContent", 1),
                            Call("setGeneratedImage", IF r.image = "null" THEN 0 ELSE 1)>>)
  /\ UNCHANGED <<animation, isDemo, isDemoRef, isTunerOpen, pendingInput, error,
                 lastValueRef, apiKey, probe>>

\* the catch block of call i without the finally block
rejectedKeepsLoading(i, message, ev) ==
  /\ error' = message
  /\ requests' = Remove(requests, i)
  /\ lastStep' = Step(ev, <<Call("setError", 1)>>)
  /\ UNCHANGED <<animation, duration, loading, isDemo, isDemoRef, inputText,
                 generatedContent, formVars, generatedImage, readerVars, dialVars,
                 apiKey, probe>>

\* the catch and finally blocks of call i, given the message of the error
rejected(i, message, ev) ==
  /\ error' = message
  /\ loading' = FALSE
  /\ requests' = Remove(requests, i)
  /\ listeners' = IF mounted THEN AfterRender(isDragging, FALSE, isDemo) ELSE listeners
  /\ lastStep' = Step(ev, <<Call("setError", 1)>>)
  /\ UNCHANGED <<animation, duration, isDemo, isDemoRef, inputText, generatedContent,
                 formVars, generatedImage, readerVars, mounted, isDragging,
                 lastValueRef, apiKey, probe>>

\* one promise of call i settled, leaving r: Promise.all rejects on the first
\* rejection, resolves when both are fulfilled and waits otherwise
settled(i, r, ev) ==
  IF r.content \in Thrown THEN rejected(i, r.content, ev)
  ELSE IF r.image \in Thrown THEN rejected(i, r.image, ev)
  ELSE IF joined(r) THEN resolved(i, r, ev)
  ELSE /\ requests' = [requests EXCEPT ![i] = r]
       /\ lastStep' = Step(ev, <<>>)
       /\ UNCHANGED <<duration, loading, isDemo, isDemoRef, inputText, generatedContent,
                      animation, formVars, resultVars, readerVars, dialVars, apiKey, probe>>

\* contentPromise of call i settles
contentSettled(i, outcome) ==
  /\ i \in 1..Len(requests)
  /\ requests[i].content = "pending"
  /\ settled(i, [requests[i] EXCEPT !.content = generateReadingContent(outcome)],
             "contentSettled")

\* imagePromise of call i settles
imageSettled(i, outcome) ==
  /\ i \in 1..Len(requests)
  /\ requests[i].image = "pending"
  /\ settled(i, [requests[i] EXCEPT !.image = generateCoverImage(outcome)],
             "imageSettled")

\* StyleSelector onChange, on the home screen (onStyleChange={setContentStyle})
\* or in the open tuner; the selector has no disabled state
setContentStyle(s) ==
  /\ generatedContent = "null" \/ isTunerOpen
  /\ contentStyle' = s
  /\ lastStep' = Step("style", <<>>)
  /\ UNCHANGED <<duration, loading, isDemo, isDemoRef, inputText, generatedContent,
                 requests, animation, isTunerOpen, pendingInput, resultVars, readerVars,
                 dialVars, apiKey, probe>>

\* the reader's bottom bar: onChange={setLocalInput}; it is never disabled
setLocalInput(t) ==
  /\ generatedContent # "null"
  /\ localInput' = t
  /\ lastStep' = Step("localInput", <<>>)
  /\ UNCHANGED <<duration, loading, isDemo, isDemoRef, inputText, generatedContent, requests,
                 animation, formVars, resultVars, localStyle, timeLeft, dialVars, apiKey, probe>>

\* the reader's bottom bar: onStyleChange={setLocalStyle}
setLocalStyle(s) ==
  /\ generatedContent # "null"
  /\ localStyle' = s
  /\ lastStep' = Step("localStyle", <<>>)
  /\ UNCHANGED <<duration, loading, isDemo, isDemoRef, inputText, generatedContent, requests,
                 animation, formVars, resultVars, localInput, timeLeft, dialVars, apiKey, probe>>

\* openTunerForAdjustment(currentInput, currentStyle)
openTunerForAdjustment(currentInput, currentStyle) ==
  /\ pendingInput' = currentInput
  /\ contentStyle' = currentStyle
  /\ isTunerOpen' = TRUE
  /\ lastStep' = Step("openTuner", <<>>)
  /\ UNCHANGED <<duration, loading, isDemo, isDemoRef, inputText, generatedContent,
                 requests, animation, resultVars, readerVars, dialVars, apiKey, probe>>

\* the submit button or Ctrl/Cmd+Enter of the reader's bottom bar:
\* onSubmit={() => onReconfigure(localInput, localStyle)}
readerSubmit ==
  /\ generatedContent # "null"
  /\ canSubmit(localInput, FALSE)
  /\ openTunerForAdjustment(localInput, localStyle)

\* the tuner's backdrop or close button: setIsTunerOpen(false)
closeTuner ==
  /\ isTunerOpen
  /\ isTunerOpen' = FALSE
  /\ lastStep' = Step("closeTuner", <<>>)
  /\ UNCHANGED <<duration, loading, isDemo, isDemoRef, inputText, generatedContent,
                 requests, animation, contentStyle, pendingInput, resultVars, readerVars,
                 dialVars, apiKey, probe>>

\* the tuner's TimeSelector: onChange={setDuration} disabled={loading}; v is
\* the value its dial emits
tunerDial(v) ==
  /\ isTunerOpen
  /\ ~loading
  /\ duration' = v
  /\ timeLeft' = timeLeftAfter(v)
  /\ lastStep' = Step("tunerDial", <<Call("setDuration", v)>>)
  /\ UNCHANGED <<loading, isDemo, isDemoRef, inputText, generatedContent, requests,
                 animation, formVars, resultVars, localInput, localStyle, dialVars,
                 apiKey, probe>>

\* handleTunerSubmit
handleTunerSubmit == executeGeneration(pendingInput, duration, contentStyle)

\* the tuner's "Update View" button
tunerSubmit ==
  /\ isTunerOpen
  /\ ~tunerButtonDisabled
  /\ handleTunerSubmit

\* the reader's setInterval callback, every second
tick ==
  /\ generatedContent # "null"
  /\ timeLeft' = IF timeLeft <= 0 THEN 0 ELSE timeLeft - 1
  /\ lastStep' = Step("tick", <<>>)
  /\ UNCHANGED <<duration, loading, isDemo, isDemoRef, inputText, generatedContent, requests,
                 animation, formVars, resultVars, localInput, localStyle, dialVars, apiKey, probe>>

\* handleReset without setGeneratedImage(null)
handleResetKeepsImage ==
  /\ generatedContent # "null"
  /\ generatedContent' = "null"
  /\ error' = "null"
  /\ inputText' = ""
  /\ localInput' = "" /\ localStyle' = "default" /\ timeLeft' = 0
  /\ mounted' = TRUE
  /\ isDragging' = FALSE
  /\ lastValueRef' = duration
  /\ listeners' = Effect(FALSE, loading, isDemo)
  /\ lastStep' = Step("reset", <<>>)
  /\ UNCHANGED <<animation, duration, loading, isDemo, isDemoRef, requests, formVars,
                 generatedImage, apiKey, probe>>

\* Back in the reader: handleReset; the home screen mounts a fresh dial
handleReset ==
  /\ generatedContent # "null"
  /\ generatedContent' = "null"
  /\ generatedImage' = "null"
  /\ error' = "null"
  /\ inputText' = ""
  /\ localInput' = "" /\ localStyle' = "default" /\ timeLeft' = 0
  /\ mounted' = TRUE
  /\ isDragging' = FALSE
  /\ lastValueRef' = duration
  /\ listeners' = Effect(FALSE, loading, isDemo)
  /\ lastStep' = Step("reset", <<>>)
  /\ UNCHANGED <<animation, duration, loading, isDemo, isDemoRef, requests, formVars,
                 apiKey, probe>>

Next ==
  \/ \E p \in Pointers : handleMouseDown(p[1], p[2])
  \/ \E p \in Pointers : handleMove(p[1], p[2])
  \/ handleUp
  \/ \E t \in Texts : setInputText(t)
  \/ homeSubmit
  \/ \E i \in 1..Len(requests) : contentSettled(i, "text")
  \/ \E i \in 1..Len(requests) : contentSettled(i, "apiError")
  \/ \E i \in 1..Len(requests) : imageSettled(i, "image")
  \/ handleReset
  \/ startDelay
  \/ \E e \in FrameTimes : animate(e)

Spec == Init /\ [][Next]_vars

\* ------------------------------------------------- the App's two screens

\* values the tuner's dial emits
TunerValues == {MIN_SECONDS, MAX_SECONDS}

\* the App after its first render, with or without an API key
AppInit ==
  /\ duration = 180
  /\ loading = FALSE
  /\ isDemo = TRUE
  /\ isDemoRef = TRUE
  /\ inputText = ""
  /\ generatedContent = "null"
  /\ requests = <<>>
  /\ apiKey \in BOOLEAN
  /\ animation = [phase |-> "delay"]
  /\ contentStyle = "default" /\ isTunerOpen = FALSE /\ pendingInput = ""
  /\ generatedImage = "null" /\ error = "null"
  /\ localInput = "" /\ localStyle = "default" /\ timeLeft = 0
  /\ mounted = TRUE
  /\ isDragging = FALSE
  /\ lastValueRef = 180
  /\ listeners = [attached |-> FALSE, isDragging |-> FALSE, disabled |-> FALSE,
                  isDemo |-> TRUE, sets |-> 0]
  /\ lastStep = [ev |-> "init", prevEv |-> "init", disabled |-> FALSE, wasDragging |-> FALSE,
                 lastBefore |-> 180, handled |-> FALSE, dx |-> 0, dy |-> 0, angleDeg |-> 0,
                 clampedAngle |-> 0, newFraction |-> 0, calls |-> <<>>]
  /\ probe = NoProbe

AppNext ==
  \/ \E t \in AppTexts : setInputText(t)
  \/ \E s \in Styles : setContentStyle(s)
  \/ homeSubmit
  \/ \E i \in 1..Len(requests) : \E o \in ContentOutcomes : contentSettled(i, o)
  \/ \E i \in 1..Len(requests) : \E o \in ImageOutcomes : imageSettled(i, o)
  \/ \E t \in AppTexts : setLocalInput(t)
  \/ \E s \in Styles : setLocalStyle(s)
  \/ readerSubmit
  \/ closeTuner
  \/ \E v \in TunerValues : tunerDial(v)
  \/ tunerSubmit
  \/ handleReset

AppSpec == AppInit /\ [][AppNext]_vars

\* --------------------------------------- handleInitialGenerate in isolation

\* calls of executeGeneration awaited at once
MaxCalls == 1

\* the home screen with any text in the textarea
GenerateInit ==
  /\ duration \in {MIN_SECONDS, 180}
  /\ loading = FALSE
  /\ isDemo = FALSE
  /\ isDemoRef = FALSE
  /\ inputText \in AppTexts
  /\ generatedContent = "null"
  /\ requests = <<>>
  /\ apiKey = TRUE
  /\ animation = NoAnimation
  /\ contentStyle \in Styles /\ isTunerOpen = FALSE /\ pendingInput = ""
  /\ generatedImage = "null" /\ error = "null"
  /\ localInput = "" /\ localStyle = "default" /\ timeLeft = 0
  /\ mounted = TRUE
  /\ isDragging = FALSE
  /\ lastValueRef = duration
  /\ listeners = [attached |-> FALSE, isDragging |-> FALSE, disabled |-> FALSE,
                  isDemo |-> FALSE, sets |-> 0]
  /\ lastStep = [ev |-> "init", prevEv |-> "init", disabled |-> FALSE, wasDragging |-> FALSE,
                 lastBefore |-> duration, handled |-> FALSE, dx |-> 0, dy |-> 0,
                 angleDeg |-> 0, clampedAngle |-> 0, newFraction |-> 0, calls |-> <<>>]
  /\ probe = [NoProbe EXCEPT !.kind = "handler"]

\* handleInitialGenerate called whatever the submit button's state
callHandleInitialGenerate ==
  /\ generatedContent = "null"
  /\ Len(requests) < MaxCalls
  /\ handleInitialGenerate

GenerateNext ==
  \/ callHandleInitialGenerate
  \/ \E i \in 1..Len(requests) : \E o \in ContentOutcomes : contentSettled(i, o)
  \/ \E i \in 1..Len(requests) : \E o \in ImageOutcomes : imageSettled(i, o)
  \/ \E t \in AppTexts : setLocalInput(t)
  \/ readerSubmit
  \/ closeTuner
  \/ tunerSubmit
  \/ handleReset

GenerateSpec == GenerateInit /\ [][GenerateNext]_vars

\* ------------------------------------------------- the reader's countdown

\* values the tuner's dial emits
ReaderValues == {MIN_SECONDS, MIN_SECONDS + SnapStep}

\* a reader just mounted by a generation made with the dial at its minimum
ReaderInit ==
  /\ duration = MIN_SECONDS
  /\ loading = FALSE
  /\ isDemo = FALSE
  /\ isDemoRef = FALSE
  /\ inputText = "article"
  /\ generatedContent = "content"
  /\ requests = <<>>
  /\ apiKey = TRUE
  /\ animation = NoAnimation
  /\ contentStyle = "default" /\ isTunerOpen = FALSE /\ pendingInput = ""
  /\ generatedImage = "url" /\ error = "null"
  /\ localInput = "article" /\ localStyle = "default" /\ timeLeft = MIN_SECONDS
  /\ mounted = FALSE
  /\ isDragging = FALSE
  /\ lastValueRef = MIN_SECONDS
  /\ listeners = NoListeners
  /\ lastStep = [ev |-> "init", prevEv |-> "init", disabled |-> FALSE, wasDragging |-> FALSE,
                 lastBefore |-> MIN_SECONDS, handled |-> FALSE, dx |-> 0, dy |-> 0,
                 angleDeg |-> 0, clampedAngle |-> 0, newFraction |-> 0, calls |-> <<>>]
  /\ probe = NoProbe

ReaderNext ==
  \/ tick
  \/ readerSubmit
  \/ closeTuner
  \/ \E v \in ReaderValues : tunerDial(v)
  \/ tunerSubmit
  \/ \E i \in 1..Len(requests) : contentSettled(i, "text")
  \/ \E i \in 1..Len(requests) : imageSettled(i, "image")

\* the interval fires every second for as long as the reader is mounted
ReaderSpec == ReaderInit /\ [][ReaderNext]_vars /\ WF_vars(tick)

\* ------------------------------------------- the value mapping in isolation
SecondsIn == 0..MaxSecondsIn

MapInit ==
  /\ duration = 180 /\ loading = FALSE /\ isDemo = TRUE /\ isDemoRef = TRUE
  /\ inputText = "" /\ generatedContent = "null" /\ requests = <<>> /\ apiKey = TRUE
  /\ animation = NoAnimation
  /\ contentStyle = "default" /\ isTunerOpen = FALSE /\ pendingInput = ""
  /\ generatedImage = "null" /\ error = "null"
  /\ localInput = "" /\ localStyle = "default" /\ timeLeft = 0
  /\ mounted = TRUE /\ isDragging = FALSE /\ lastValueRef = 180
  /\ listeners = [attached |-> FALSE, isDragging |-> FALSE, disabled |-> FALSE,
                  isDemo |-> TRUE, sets |-> 0]
  /\ lastStep = [ev |-> "init", prevEv |-> "init", disabled |-> FALSE, wasDragging |-> FALSE,
                 lastBefore |-> 180, handled |-> FALSE, dx |-> 0, dy |-> 0, angleDeg |-> 0, clampedAngle |-> 0,
                 newFraction |-> 0, calls |-> <<>>]
  /\ \/ \E f \in Fractions : probe = [NoProbe EXCEPT !.kind = "fraction", !.arg = f, !.frac = f]
     \/ \E s \in SecondsIn : probe = [NoProbe EXCEPT !.kind = "seconds", !.arg = s]
     \/ \E s \in SecondsIn : probe = [NoProbe EXCEPT !.kind = "format", !.arg = s]
     \/ \E s \in SecondsIn : probe = [NoProbe EXCEPT !.kind = "describe", !.arg = s]

\* fractionToSeconds(f) for the fraction drawn
ProbeForward ==
  /\ probe.kind = "fraction" /\ probe.stage = 0
  /\ probe' = [probe EXCEPT !.stage = 1, !.sec = fractionToSeconds(probe.frac)]
  /\ UNCHANGED <<appVars, dialVars, lastStep>>

\* secondsToFraction(s) for the seconds drawn
ProbeInverse ==
  /\ probe.kind = "seconds" /\ probe.stage = 0
  /\ probe' = [probe EXCEPT !.stage = 1, !.frac = secondsToFraction(probe.arg)]
  /\ UNCHANGED <<appVars, dialVars, lastStep>>

\* fractionToSeconds(secondsToFraction(s))
ProbeRoundTrip ==
  /\ probe.kind = "seconds" /\ probe.stage = 1
  /\ probe' = [probe EXCEPT !.stage = 2, !.sec = fractionToSeconds(probe.frac)]
  /\ UNCHANGED <<appVars, dialVars, lastStep>>

\* formatTime(seconds) for the seconds drawn
ProbeFormat ==
  /\ probe.kind = "format" /\ probe.stage = 0
  /\ probe' = [probe EXCEPT !.stage = 1, !.text = formatTime(probe.arg)]
  /\ UNCHANGED <<appVars, dialVars, lastStep>>

\* getTimeContext(seconds) for the seconds drawn
ProbeDescribe ==
  /\ probe.kind = "describe" /\ probe.stage = 0
  /\ probe' = [probe EXCEPT !.stage = 1, !.text = getTimeContext(probe.arg)]
  /\ UNCHANGED <<appVars, dialVars, lastStep>>

MapNext ==
  \/ ProbeForward
  \/ ProbeInverse
  \/ ProbeRoundTrip
  \/ ProbeFormat
  \/ ProbeDescribe

MapSpec == MapInit /\ [][MapNext]_vars

\* ---------------------------------------------- handleInteraction in isolation
\* values lastValueRef may hold when the handler is entered
UnitValues == {MIN_SECONDS, 180, fractionToSeconds(FracDen \div 2), MAX_SECONDS}

\* one TimeSelector with any props, with or without its knob element
UnitInit ==
  /\ loading \in BOOLEAN /\ isDemo \in BOOLEAN /\ isDemoRef = isDemo
  /\ mounted \in BOOLEAN
  /\ lastValueRef \in UnitValues /\ duration = lastValueRef
  /\ inputText = "" /\ generatedContent = "null" /\ requests = <<>> /\ apiKey = TRUE
  /\ animation = NoAnimation
  /\ contentStyle = "default" /\ isTunerOpen = FALSE /\ pendingInput = ""
  /\ generatedImage = "null" /\ error = "null"
  /\ localInput = "" /\ localStyle = "default" /\ timeLeft = 0
  /\ isDragging = TRUE
  /\ listeners = [attached |-> TRUE, isDragging |-> TRUE, disabled |-> loading,
                  isDemo |-> isDemo, sets |-> 1]
  /\ lastStep = [ev |-> "init", prevEv |-> "init", disabled |-> loading, wasDragging |-> TRUE,
                 lastBefore |-> lastValueRef, handled |-> FALSE, dx |-> 0, dy |-> 0,
                 angleDeg |-> 0, clampedAngle |-> 0, newFraction |-> 0, calls |-> <<>>]
  /\ probe = [NoProbe EXCEPT !.kind = "handler"]

\* handleInteraction(clientX, clientY) called with these props and this ref
callHandleInteraction(dx, dy) ==
  /\ probe.kind = "handler"
  /\ LET r == handleInteraction(dx, dy, loading, isDemo)
     IN  /\ lastValueRef' = r.last
         /\ duration' = r.newSeconds
         /\ lastStep' = PointerStep("call", dx, dy, r, <<>>)
  /\ UNCHANGED <<loading, isDemo, isDemoRef, inputText, generatedContent, requests,
                 animation, formVars, resultVars, readerVars, mounted, isDragging,
                 listeners, apiKey, probe>>

UnitNext == \E p \in Pointers : callHandleInteraction(p[1], p[2])

UnitSpec == UnitInit /\ [][UnitNext]_vars

\* ------------------------------------------------------------------ claims
OnChangeArgs(step) ==
  {step.calls[i].arg : i \in {j \in 1..Len(step.calls) : step.calls[j].fn = "onChange"}}

CallNames(step) == [i \in 1..Len(step.calls) |-> step.calls[i].fn]

DurationValue(v) == v \in MIN_SECONDS..MAX_SECONDS /\ v % 5 = 0

PointerEvents == {"down", "move", "up"}

\* fractionToSeconds of every fraction of the grid is a duration value
EveryFractionGivesADuration == \A f \in Fractions : DurationValue(fractionToSeconds(f))

\* C1: every value the dial passes to onChange, whatever the sequence of down,
\* move and release events and wherever the pointer is, is an integer in
\* [15, 900] divisible by 5; so is fractionToSeconds(f) for every fraction f
\* of the grid on [0, 1].
C1_EmittedValuesAreDurations ==
  /\ \A v \in OnChangeArgs(lastStep) : DurationValue(v)
  /\ EveryFractionGivesADuration

\* a move far outside the widget, past the end of the arc, emitted 900
C1_Witness ==
  /\ lastStep.ev = "move" /\ lastStep.handled
  /\ lastStep.dy = Far /\ lastStep.dx > 0
  /\ lastStep.angleDeg > MAX_ANGLE * AngleScale
  /\ OnChangeArgs(lastStep) = {MAX_SECONDS}

\* C2: round trip: for every integer s in [15, 900] divisible by 5,
\* fractionToSeconds(secondsToFraction(s)) = s.
C2_RoundTrip ==
  (/\ probe.kind = "seconds" /\ probe.stage = 2
   /\ probe.arg \in MIN_SECONDS..MAX_SECONDS /\ probe.arg % 5 = 0)
  => probe.sec = probe.arg

\* 455 seconds went through secondsToFraction, to a fraction strictly inside
\* the arc, and back
C2_Witness ==
  /\ probe.kind = "seconds" /\ probe.stage = 2
  /\ probe.arg = 455 /\ probe.sec = 455
  /\ probe.frac \in 1..(FracDen - 1)

\* C3: monotonicity: fractionToSeconds(f1) <= fractionToSeconds(f2) whenever
\* f1 < f2 in [0, 1]; as the fraction is the clamped angle measured from
\* MIN_ANGLE, a larger clamped angle never gives a smaller value.
C3_Monotone ==
  (probe.kind = "fraction" /\ probe.stage = 1)
  => \A g \in 0..probe.frac : fractionToSeconds(g) <= probe.sec

\* a fraction in the upper half of the arc whose value exceeds that of 0
C3_Witness ==
  /\ probe.kind = "fraction" /\ probe.stage = 1
  /\ 2 * probe.frac > FracDen
  /\ probe.sec > fractionToSeconds(0)

\* C4: boundary values: fractionToSeconds(0) = 15 and fractionToSeconds(1) =
\* 900, so an interaction whose angle is clamped to -135 emits 15 and one
\* whose angle is clamped to +135 emits 900.
C4_BoundaryValues ==
  /\ (lastStep.handled /\ lastStep.angleDeg <= MIN_ANGLE * AngleScale)
       => /\ lastStep.newFraction = 0
          /\ OnChangeArgs(lastStep) = {15}
          /\ fractionToSeconds(lastStep.newFraction) = 15
  /\ (lastStep.handled /\ lastStep.angleDeg >= MAX_ANGLE * AngleScale)
       => /\ lastStep.newFraction = FracDen
          /\ OnChangeArgs(lastStep) = {900}
          /\ fractionToSeconds(lastStep.newFraction) = 900

\* a down on the lower left diagonal, exactly at -135 degrees, emitted 15
C4_Witness ==
  /\ lastStep.ev = "down" /\ lastStep.handled
  /\ lastStep.angleDeg = MIN_ANGLE * AngleScale
  /\ duration = 15

\* C5: for every pointer position relative to the dial centre, however far
\* outside the widget, the angle handleInteraction uses after normalisation
\* and clamping lies in [-135, 135] and the fraction derived from it in [0, 1].
C5_ClampedAngleInRange ==
  lastStep.handled
  => /\ lastStep.clampedAngle = clampedAngle(angleDeg(lastStep.dx, lastStep.dy))
     /\ lastStep.clampedAngle >= MIN_ANGLE * AngleScale
     /\ lastStep.clampedAngle <= MAX_ANGLE * AngleScale
     /\ lastStep.newFraction \in Fractions

\* a pointer straight below the centre, at the far end of the range: the
\* angle is 180 degrees before the clamp
C5_Witness ==
  /\ lastStep.handled
  /\ lastStep.dx = 0 /\ lastStep.dy = Far
  /\ lastStep.angleDeg = 180 * AngleScale
  /\ lastStep.clampedAngle = MAX_ANGLE * AngleScale

\* C6: a down on the dial while Idle and not disabled notifies the start of
\* the interaction, enters Dragging and in the same step passes to onChange
\* fractionToSeconds of the fraction of the down position (a down straight
\* above the centre, fraction 0.5, emits fractionToSeconds(0.5)); the
\* notification comes before that emission.
C6_DownStartsAndEmits ==
  (lastStep.ev = "down" /\ ~lastStep.disabled /\ ~lastStep.wasDragging)
  => /\ isDragging
     /\ ~isDemoRef
     /\ lastStep.handled
     /\ Len(lastStep.calls) >= 2
     /\ lastStep.calls[1].fn = "onInteractionStart"
     /\ lastStep.calls[Len(lastStep.calls)] =
          Call("onChange", fractionToSeconds(lastStep.newFraction))
     /\ Cardinality({i \in 1..Len(lastStep.calls) : lastStep.calls[i].fn = "onChange"}) = 1
     /\ duration = fractionToSeconds(lastStep.newFraction)
     /\ (lastStep.dx = 0 /\ lastStep.dy < 0)
          => /\ 2 * lastStep.newFraction = FracDen
             /\ duration = fractionToSeconds(FracDen \div 2)

\* the first down of a session, straight above the centre
C6_Witness ==
  /\ lastStep.ev = "down" /\ ~lastStep.disabled /\ ~lastStep.wasDragging
  /\ lastStep.prevEv = "init"
  /\ lastStep.dx = 0 /\ lastStep.dy < 0
  /\ CallNames(lastStep) = <<"onInteractionStart", "playClickSound", "onChange">>
  /\ isDragging

\* C7: a release ends the drag: the dial is Idle afterwards, it stays Idle
\* until the next down on the dial, and no move received while it is Idle
\* calls onChange.
C7_ReleaseEndsEmission ==
  /\ lastStep.ev = "up" => (~isDragging /\ ~listeners.attached)
  /\ (~lastStep.wasDragging /\ lastStep.ev # "down") => ~isDragging
  /\ (lastStep.ev = "move" /\ ~lastStep.wasDragging)
       => (lastStep.calls = <<>> /\ ~lastStep.handled)

\* a move right after the release that ended a drag: nothing was called and
\* the value the drag left is still there
C7_Witness ==
  /\ lastStep.ev = "move" /\ lastStep.prevEv = "up"
  /\ ~lastStep.disabled /\ mounted
  /\ lastStep.calls = <<>>
  /\ lastValueRef # 180 /\ duration = lastValueRef

\* C8: while disabled is true, no down and no move calls onChange or
\* onInteractionStart.
C8_DisabledIsSilent ==
  (lastStep.ev \in {"down", "move"} /\ lastStep.disabled)
  => (lastStep.calls = <<>> /\ ~lastStep.handled)

\* a move received in the middle of a drag while the dial was disabled
C8_Witness ==
  /\ lastStep.ev = "move" /\ lastStep.disabled /\ lastStep.wasDragging
  /\ listeners.attached
  /\ lastStep.calls = <<>>

\* C9: while disabled is set no gesture transition fires: the dragging flag
\* keeps its value under every down, move and release received while
\* disabled is true.
C9_DisabledFreezesDragging ==
  (lastStep.ev \in PointerEvents /\ lastStep.disabled)
  => isDragging = lastStep.wasDragging

\* C10 as stated: during Dragging a move whose recomputed value equals the
\* last emitted value (no tick was due) produces no emission.
C10_UnchangedMoveIsSilent ==
  (lastStep.ev = "move" /\ lastStep.handled /\ "playClickSound" \notin
     {lastStep.calls[i].fn : i \in 1..Len(lastStep.calls)})
  => OnChangeArgs(lastStep) = {}

\* C10 as amended: during Dragging with the dial enabled every move recomputes
\* the value from the pointer position and calls onChange with it exactly
\* once, whether or not it differs from the last emitted value; only the tick
\* (and the update of the last value) depends on the value having changed.
C10_EveryMoveEmits ==
  (lastStep.ev = "move" /\ lastStep.wasDragging /\ ~lastStep.disabled)
  => /\ lastStep.handled
     /\ lastStep.calls # <<>>
     /\ lastStep.calls[Len(lastStep.calls)] =
          Call("onChange",
               fractionToSeconds(newFraction(clampedAngle(angleDeg(lastStep.dx, lastStep.dy)))))
     /\ Cardinality({i \in 1..Len(lastStep.calls) : lastStep.calls[i].fn = "onChange"}) = 1
     /\ duration = lastValueRef
     /\ OnChangeArgs(lastStep) = {duration}

\* a move that recomputed the value already emitted: onChange alone was called
C10_Witness ==
  /\ lastStep.ev = "move" /\ lastStep.handled
  /\ CallNames(lastStep) = <<"onChange">>

\* the step played an audible tick
Ticked(step) ==
  \E i \in 1..Len(step.calls) : step.calls[i] = Call("playClickSound", 1)

\* C11: an interaction step triggers the tick exactly when the value it
\* computed differs from the last value the dial tracked; a step that leaves
\* the value unchanged triggers none.
C11_TickIffChanged ==
  lastStep.handled
  => (Ticked(lastStep) <=> fractionToSeconds(lastStep.newFraction) # lastStep.lastBefore)

\* C12: the window listeners are there exactly for the span of a drag: once
\* the effect of a render has run they are present iff isDragging, never more
\* than one set is registered, and none remains when the dial is Idle or gone.
C12_ListenersSpanTheDrag ==
  /\ mounted => (listeners.attached <=> isDragging)
  /\ listeners.sets = (IF mounted /\ isDragging THEN 1 ELSE 0)
  /\ ~mounted => ~listeners.attached

\* a second gesture begins right after a release: one set is registered
C12_Witness ==
  /\ lastStep.ev = "down" /\ lastStep.prevEv = "up"
  /\ ~lastStep.wasDragging /\ lastStep.lastBefore # 180
  /\ isDragging /\ listeners.sets = 1

\* C13: when the dial becomes disabled in the middle of a drag the drag ends:
\* the listeners attached at its start are detached, and stay so, without a
\* release.
C13_DisableEndsDrag ==
  (mounted /\ loading) => (~isDragging /\ ~listeners.attached)

\* C14: when the dial's geometry is unavailable (the knob element is not
\* mounted) an interaction is a no-op: onChange is not called, no tick is
\* played and the last emitted value stays as it was.
C14_NoKnobIsNoOp ==
  (lastStep.ev = "call" /\ ~mounted)
  => /\ lastStep.calls = <<>>
     /\ ~lastStep.handled
     /\ lastValueRef = lastStep.lastBefore
     /\ duration = lastStep.lastBefore

\* the handler ran enabled and without a knob while 15 was the tracked value
C14_Witness ==
  /\ lastStep.ev = "call" /\ ~mounted /\ ~lastStep.disabled
  /\ lastStep.calls = <<>>
  /\ lastValueRef = MIN_SECONDS

\* C15: secondsToFraction clamps whatever seconds value comes from outside:
\* the result is a fraction in [0, 1], 0 for every value up to 15 and 1 for
\* every value from 900 on, so the indicator angle is in [-135, 135].
C15_InverseClamps ==
  (probe.kind = "seconds" /\ probe.stage >= 1)
  => /\ probe.frac \in Fractions
     /\ probe.arg <= MIN_SECONDS => probe.frac = 0
     /\ probe.arg >= MAX_SECONDS => probe.frac = FracDen
     /\ currentAngle(probe.frac) >= MIN_ANGLE * AngleScale
     /\ currentAngle(probe.frac) <= MAX_ANGLE * AngleScale

\* the largest value handed in, above MAX_SECONDS, put the indicator at +135
C15_Witness ==
  /\ probe.kind = "seconds" /\ probe.stage = 1
  /\ probe.arg = MaxSecondsIn /\ probe.arg > MAX_SECONDS
  /\ currentAngle(probe.frac) = MAX_ANGLE * AngleScale

\* C16: for every integer n >= 0, formatTime(n) is "<n>s" when n < 60, "<M>m"
\* when n >= 60 and n % 60 = 0, and "<M>m <S>s" with M = floor(n / 60) and
\* S = n % 60 in 1..59 otherwise; formatTime(45) = "45s", formatTime(180) =
\* "3m", formatTime(90) = "1m 30s".
C16_FormatTime ==
  (probe.kind = "format" /\ probe.stage = 1)
  => LET n == probe.arg
     IN  /\ n < 60 => probe.text = ToString(n) \o "s"
         /\ (n >= 60 /\ n % 60 = 0) => probe.text = ToString(n \div 60) \o "m"
         /\ (n >= 60 /\ n % 60 # 0)
              => /\ n % 60 \in 1..59
                 /\ probe.text = ToString(n \div 60) \o "m " \o ToString(n % 60) \o "s"
         /\ n = 45 => probe.text = "45s"
         /\ n = 180 => probe.text = "3m"
         /\ n = 90 => probe.text = "1m 30s"

\* three minutes formatted without a seconds part
C16_Witness ==
  probe.kind = "format" /\ probe.stage = 1 /\ probe.arg = 180 /\ probe.text = "3m"

\* the thresholds a value does not exceed
NotExceeded(n) == {i \in 1..Len(TimeContexts) : n <= TimeContexts[i].limit}

\* C17: getTimeContext is total over the integers n >= 0: it returns the
\* description of the smallest threshold of the ascending table that n does
\* not exceed and the one fallback description for every n above the largest
\* threshold; describe(15) is "Usain Bolt runs almost 200 meters." and
\* describe(1000) = describe(901).
C17_DescribeTotal ==
  /\ \A i, j \in 1..Len(TimeContexts) :
       i < j => TimeContexts[i].limit < TimeContexts[j].limit
  /\ (probe.kind = "describe" /\ probe.stage = 1)
     => LET n == probe.arg
        IN  /\ NotExceeded(n) # {}
              => \E i \in NotExceeded(n) :
                    /\ \A j \in NotExceeded(n) :
                         TimeContexts[i].limit <= TimeContexts[j].limit
                    /\ probe.text = TimeContexts[i].text
            /\ NotExceeded(n) = {} => probe.text = FallbackContext
            /\ n = 15 => probe.text = "Usain Bolt runs almost 200 meters."
            /\ n > 900 => probe.text = getTimeContext(901)

\* 1000 seconds, above every threshold, got the fallback
C17_Witness ==
  /\ probe.kind = "describe" /\ probe.stage = 1
  /\ probe.arg = 1000 /\ probe.text = FallbackContext

\* C18 as stated: describe(900) = "A sitcom episode (without ads).".
C18_NineHundredIsSitcom ==
  (probe.kind = "describe" /\ probe.stage = 1 /\ probe.arg = 900)
  => probe.text = "A sitcom episode (without ads)."

\* C18 as amended: describe(900), the description of the largest dial value,
\* is "A solid power nap."; "A sitcom episode (without ads)." is returned
\* exactly for the values above 900.
C18_NineHundredIsPowerNap ==
  (probe.kind = "describe" /\ probe.stage = 1)
  => /\ probe.arg = 900 => probe.text = "A solid power nap."
     /\ probe.text = "A sitcom episode (without ads)." <=> probe.arg > 900

\* 900 seconds described as a power nap
C18_Witness ==
  /\ probe.kind = "describe" /\ probe.stage = 1
  /\ probe.arg = 900 /\ probe.text = "A solid power nap."

\* C19 as stated: App's duration is in [15, 900] and divisible by 5 in every
\* reachable state, whatever wrote it.
C19_DurationIsAlwaysADurationValue == DurationValue(duration)

\* C20: once handleInteractionStart has cleared the demo flag, it never
\* becomes true again and neither the delayed start nor any later frame
\* writes duration: a step of the animation taken with the flag cleared
\* leaves duration as it was and ends the animation.
C20_CancelledDemoIsInert ==
  [][/\ ~isDemoRef => ~isDemoRef'
     /\ (~isDemoRef /\ animation' # animation)
          => (duration' = duration /\ animation' = NoAnimation)]_vars

\* a frame arrived right after the press that cancelled the running
\* animation; it made no call and the value of the press is still there
C20_Witness ==
  /\ lastStep.ev = "animate" /\ lastStep.prevEv = "down"
  /\ lastStep.calls = <<>>
  /\ ~isDemoRef /\ animation = NoAnimation
  /\ duration = lastValueRef /\ duration = MAX_SECONDS

\* C22: angle orientation: a pointer straight above the centre gives angle 0
\* (fraction 0.5); angles grow clockwise (90 to the right, 180 straight
\* below, -90 to the left; positive on the right half, negative on the left
\* half) and are in (-180, 180] before the clamp; every pointer in the bottom
\* sector beyond +/-135 degrees maps to the nearer end: right of the downward
\* vertical and exactly below it emits 900, left of it emits 15.
C22_AngleOrientation ==
  (lastStep.ev = "call" /\ lastStep.handled /\ (lastStep.dx # 0 \/ lastStep.dy # 0))
  => LET dx == lastStep.dx
         dy == lastStep.dy
         a == lastStep.angleDeg
     IN  /\ a > -180 * AngleScale /\ a <= 180 * AngleScale
         /\ (dx = 0 /\ dy < 0) => (a = 0 /\ 2 * lastStep.newFraction = FracDen)
         /\ (dx > 0 /\ dy = 0) => a = 90 * AngleScale
         /\ (dx = 0 /\ dy > 0) => a = 180 * AngleScale
         /\ (dx < 0 /\ dy = 0) => a = -90 * AngleScale
         /\ dx > 0 => a > 0
         /\ dx < 0 => a < 0
         /\ (dy > 0 /\ Abs(dx) <= dy)
              => /\ Abs(a) >= MAX_ANGLE * AngleScale
                 /\ dx >= 0 => OnChangeArgs(lastStep) = {MAX_SECONDS}
                 /\ dx < 0 => OnChangeArgs(lastStep) = {MIN_SECONDS}

\* a pointer just left of the downward vertical, far below the dial: the
\* angle is past -135 degrees and the value emitted is 15
C22_Witness ==
  /\ lastStep.ev = "call" /\ lastStep.handled
  /\ lastStep.dx = -41 /\ lastStep.dy = Far
  /\ lastStep.angleDeg < MIN_ANGLE * AngleScale
  /\ OnChangeArgs(lastStep) = {MIN_SECONDS}

\* C23: after an interaction step that emits, lastValueRef is the value just
\* passed to onChange; and only such a step writes it: a change of the seconds
\* prop, a frame of the intro animation, a release and every App handler
\* leave it as it was (a dial mounted anew starts from its seconds prop).
C23_LastValueTracksEmission ==
  /\ OnChangeArgs(lastStep) # {} => OnChangeArgs(lastStep) = {lastValueRef}
  /\ lastValueRef # lastStep.lastBefore
       => \/ lastStep.ev \in {"down", "move"} /\ lastStep.handled
                                             /\ OnChangeArgs(lastStep) # {}
          \/ lastStep.ev = "reset" /\ lastValueRef = duration

\* a move during a drag emitted a value other than the tracked one, and the
\* tracked value is now the emitted one
C23_Witness ==
  /\ lastStep.ev = "move" /\ lastStep.handled
  /\ lastStep.lastBefore # lastValueRef
  /\ OnChangeArgs(lastStep) = {lastValueRef}
  /\ lastValueRef = MIN_SECONDS
Wrote(step, fn) == \E k \in 1..Len(step.calls) : step.calls[k].fn = fn

SettleEvents == {"contentSettled", "imageSettled"}

\* the step settles the second promise of call i, both fulfilled, and writes
\* the two results
JoiningStep(i) ==
  /\ i \in 1..Len(requests)
  /\ requests' = Remove(requests, i)
  /\ lastStep'.ev \in SettleEvents
  /\ lastStep'.ev = "contentSettled"
       => /\ requests[i].content = "pending"
          /\ requests[i].image \in {"url", "null"}
          /\ generatedImage' = requests[i].image
          /\ generatedContent' \in {"content", EmptyTextContent}
  /\ lastStep'.ev = "imageSettled"
       => /\ requests[i].image = "pending"
          /\ requests[i].content \in {"content", EmptyTextContent}
          /\ generatedContent' = requests[i].content
          /\ generatedImage' \in {"url", "null"}
  /\ Wrote(lastStep', "setGeneratedContent")
  /\ Wrote(lastStep', "setGeneratedImage")

\* C21: a generation starts its text request and its image request in one
\* step, and a step gives generatedContent or generatedImage a result only
\* when it settles the second of a call's two promises, both fulfilled, in
\* whichever order they settled; that step writes both
C21_ResultsWrittenTogetherAfterBoth ==
  [][/\ Len(requests') > Len(requests)
          => /\ requests' = Append(requests, requests'[Len(requests')])
             /\ requests'[Len(requests')].content = "pending"
             /\ requests'[Len(requests')].image = "pending"
     /\ (\/ generatedContent' # generatedContent /\ generatedContent' # "null"
         \/ generatedImage' # generatedImage /\ generatedImage' # "null"
         \/ Wrote(lastStep', "setGeneratedContent")
         \/ Wrote(lastStep', "setGeneratedImage"))
          => \E i \in 1..Len(requests) : JoiningStep(i)]_vars

\* the image settled first and the text second, and the text's step wrote
\* both results
C21_Witness ==
  /\ lastStep.ev = "contentSettled" /\ lastStep.prevEv = "imageSettled"
  /\ Wrote(lastStep, "setGeneratedContent") /\ Wrote(lastStep, "setGeneratedImage")
  /\ generatedContent = "content" /\ generatedImage = "url" /\ ~loading

\* C24: loading is true exactly while a call of executeGeneration awaits its
\* promises, no submit starts a call while loading is true, and at most one
\* call is in flight
C24_OneRequestWhileLoading ==
  /\ Len(requests) <= 1
  /\ loading <=> requests # <<>>
  /\ (lastStep.ev = "generate" /\ Wrote(lastStep, "setLoading")) => ~lastStep.disabled

\* the tuner was reopened from the reader while a regeneration is in flight,
\* and its submit button is disabled
C24_Witness ==
  /\ loading /\ isTunerOpen /\ Len(requests) = 1 /\ generatedContent # "null"
  /\ lastStep.ev = "openTuner" /\ tunerButtonDisabled

\* C25: the step that follows a Back pressed while a request is in flight (no
\* request can be submitted then) leaves generatedContent null and inputText
\* empty
C25_ResetSurvivesCompletion ==
  [][(lastStep.ev = "reset" /\ loading /\ requests # <<>>)
       => (generatedContent' = "null" /\ inputText' = "")]_vars

\* the step rejected the text promise of a call: it ended the call without
\* writing a result
TextFailed ==
  /\ lastStep'.ev = "contentSettled"
  /\ Len(requests') < Len(requests)
  /\ ~Wrote(lastStep', "setGeneratedContent")

\* C26: the step in which a call's text generation fails sets error to the
\* message of the failure and loading to false, and neither it nor the step
\* that started the call changes generatedContent, inputText, contentStyle or
\* duration
C26_FailureLeavesStateAlone ==
  [][/\ TextFailed
          => /\ error' \in {FailureMessage, KeyMessage}
             /\ error' = FailureMessage <=> apiKey
             /\ ~loading'
             /\ UNCHANGED <<generatedContent, inputText, contentStyle, duration>>
     /\ Len(requests') > Len(requests)
          => UNCHANGED <<generatedContent, inputText, contentStyle, duration>>]_vars

\* a regeneration failed: the reader keeps the earlier content
C26_Witness ==
  /\ lastStep.ev = "contentSettled" /\ Wrote(lastStep, "setError")
  /\ error = FailureMessage /\ ~loading /\ requests = <<>>
  /\ generatedContent = "content" /\ inputText = "article"

\* C27: with an API key, an image call that errors or returns no image part
\* gives null, the settling of the image promise never sets error, and a
\* generation whose text was fulfilled ends with the content shown, error
\* null and generatedImage the image's result, null included
C27_ImageFailureIsSilent ==
  /\ apiKey => \A o \in {"noImagePart", "apiError"} : generateCoverImage(o) = "null"
  /\ (apiKey /\ lastStep.ev = "imageSettled") => ~Wrote(lastStep, "setError")
  /\ (lastStep.ev \in SettleEvents /\ Wrote(lastStep, "setGeneratedContent"))
       => /\ generatedContent \in {"content", EmptyTextContent}
          /\ generatedImage \in {"url", "null"}
          /\ error = "null"
          /\ ~loading

\* the text was fulfilled first, the image gave null: the reader is up
\* without a cover and without an error
C27_Witness ==
  /\ lastStep.ev = "imageSettled" /\ lastStep.prevEv = "contentSettled"
  /\ Wrote(lastStep, "setGeneratedContent")
  /\ generatedContent = "content" /\ generatedImage = "null" /\ error = "null"

\* C28: generatedImage is non-null only if generatedContent is non-null
C28_ImageOnlyWithContent == generatedImage # "null" => generatedContent # "null"

\* Back, pressed right after a generation completed, cleared both
C28_Witness ==
  /\ lastStep.ev = "reset" /\ lastStep.prevEv \in SettleEvents
  /\ generatedImage = "null" /\ generatedContent = "null"

\* C29: no call of executeGeneration is made with blank text:
\* handleInitialGenerate with blank inputText sets the error and leaves
\* loading, generatedContent, generatedImage and the calls alone, and an open
\* tuner holds a non-blank pendingInput
C29_NoBlankGeneration ==
  /\ [](\A i \in 1..Len(requests) : trim(requests[i].text) # "")
  /\ [](isTunerOpen => trim(pendingInput) # "")
  /\ [][(lastStep'.ev = "generate" /\ ~isTunerOpen /\ trim(inputText) = "")
          => /\ error' = BlankMessage
             /\ UNCHANGED <<loading, generatedContent, generatedImage, requests>>]_vars

\* handleInitialGenerate was called with whitespace only
C29_Witness ==
  /\ lastStep.ev = "generate" /\ inputText = "  " /\ error = BlankMessage
  /\ ~loading /\ requests = <<>> /\ generatedContent = "null"

\* C30: timeLeft is never negative; a tick takes 1 off a positive timeLeft
\* and leaves 0 at 0; a change of duration under a mounted reader sets
\* timeLeft to the new duration; once duration stops changing, timeLeft
\* reaches 0 and stays there
C30_Countdown ==
  /\ [](timeLeft >= 0)
  /\ [][lastStep'.ev = "tick"
          => timeLeft' = IF timeLeft > 0 THEN timeLeft - 1 ELSE 0]_vars
  /\ [][(generatedContent # "null" /\ generatedContent' # "null" /\ duration' # duration)
          => timeLeft' = duration']_vars
  /\ <>[][duration' = duration]_vars => <>[](timeLeft = 0)

\* the tuner's dial moved the duration after some ticks and the countdown
\* started again from the new value
C30_Witness ==
  /\ lastStep.ev = "tunerDial" /\ lastStep.prevEv = "tick"
  /\ timeLeft = duration /\ duration = MIN_SECONDS + SnapStep

====
